---- MODULE Spec2Model ----
(***************************************************************************)
(* d6r: the KubeClient gateway (app/kube_client.py) and the FastMCP tools  *)
(* that call it (app/main.py).                                             *)
(*                                                                         *)
(* A Python string that the code inspects character by character (a        *)
(* resource kind) is a sequence of one-character strings.  Any other text  *)
(* is a sequence of fragments whose concatenation is the text.  A Python   *)
(* call is an operator that yields a record: whether it raised, the value  *)
(* or the exception, and the backend methods it looked up and invoked.     *)
(***************************************************************************)
EXTENDS Integers, Sequences, FiniteSets, TLC

VARIABLES phase, attrs, request, response

vars == <<phase, attrs, request, response>>

---------------------------------------------------------------------------
(* Bounds of the model *)

\* the longest item list the backend returns
MaxItems == 2
\* the most trailing "s" a caller appends to a kind
MaxPlural == 2

---------------------------------------------------------------------------
(* Python values *)

None == "None"
PyList(xs) == [t |-> "list", v |-> xs]
PyStr(text) == [t |-> "str", v |-> text]
PyDict(d) == [t |-> "dict", v |-> d]

NoExc == [type |-> "none", msg |-> <<>>]
Exc(type, msg) == [type |-> type, msg |-> msg]

\* the outcome of a call: a value, or an exception, and the backend traffic
Return(v, lookups, calls) ==
    [raised |-> FALSE, val |-> v, exc |-> NoExc, lookups |-> lookups, calls |-> calls]
Raise(e, lookups, calls) ==
    [raised |-> TRUE, val |-> None, exc |-> e, lookups |-> lookups, calls |-> calls]

\* a parameter with a default: <<>> when the caller leaves it out
WithDefault(arg, default) == IF arg = <<>> THEN default ELSE arg[1]

---------------------------------------------------------------------------
(* str.lower() and str.endswith('s') *)

UpperAlphabet == <<"A", "B", "C", "D", "E", "F", "G", "H", "I", "J", "K", "L", "M", "N", "O", "P", "Q", "R", "S", "T", "U", "V", "W", "X", "Y", "Z">>
LowerAlphabet == <<"a", "b", "c", "d", "e", "f", "g", "h", "i", "j", "k", "l", "m", "n", "o", "p", "q", "r", "s", "t", "u", "v", "w", "x", "y", "z">>

lower_char(c) ==
    IF \E i \in DOMAIN UpperAlphabet : UpperAlphabet[i] = c
    THEN LowerAlphabet[CHOOSE i \in DOMAIN UpperAlphabet : UpperAlphabet[i] = c]
    ELSE c
upper_char(c) ==
    IF \E i \in DOMAIN LowerAlphabet : LowerAlphabet[i] = c
    THEN UpperAlphabet[CHOOSE i \in DOMAIN LowerAlphabet : LowerAlphabet[i] = c]
    ELSE c

lower(s) == [i \in 1..Len(s) |-> lower_char(s[i])]
capitalize(s) == [i \in 1..Len(s) |-> IF i = 1 THEN upper_char(s[i]) ELSE s[i]]
endswith_s(s) == Len(s) > 0 /\ s[Len(s)] = "s"
\* s[:-1]
drop_last(s) == SubSeq(s, 1, Len(s) - 1)

---------------------------------------------------------------------------
(* The resource table of _get_resource_mapping *)

k_pod == <<"p", "o", "d">>
k_service == <<"s", "e", "r", "v", "i", "c", "e">>
k_configmap == <<"c", "o", "n", "f", "i", "g", "m", "a", "p">>
k_secret == <<"s", "e", "c", "r", "e", "t">>
k_namespace == <<"n", "a", "m", "e", "s", "p", "a", "c", "e">>
k_persistentvolumeclaim == <<"p", "e", "r", "s", "i", "s", "t", "e", "n", "t", "v", "o", "l", "u", "m", "e", "c", "l", "a", "i", "m">>
k_persistentvolume == <<"p", "e", "r", "s", "i", "s", "t", "e", "n", "t", "v", "o", "l", "u", "m", "e">>
k_serviceaccount == <<"s", "e", "r", "v", "i", "c", "e", "a", "c", "c", "o", "u", "n", "t">>
k_node == <<"n", "o", "d", "e">>
k_deployment == <<"d", "e", "p", "l", "o", "y", "m", "e", "n", "t">>
k_replicaset == <<"r", "e", "p", "l", "i", "c", "a", "s", "e", "t">>
k_statefulset == <<"s", "t", "a", "t", "e", "f", "u", "l", "s", "e", "t">>
k_daemonset == <<"d", "a", "e", "m", "o", "n", "s", "e", "t">>
k_ingress == <<"i", "n", "g", "r", "e", "s", "s">>
k_ingressclass == <<"i", "n", "g", "r", "e", "s", "s", "c", "l", "a", "s", "s">>
k_networkpolicy == <<"n", "e", "t", "w", "o", "r", "k", "p", "o", "l", "i", "c", "y">>
k_event == <<"e", "v", "e", "n", "t">>

\* the dict literal, in the order Python evaluates it
ResourceRows ==
    << [key |-> k_pod, attr |-> "core_v1_api", type |-> "pod"],
       [key |-> k_service, attr |-> "core_v1_api", type |-> "service"],
       [key |-> k_configmap, attr |-> "core_v1_api", type |-> "config_map"],
       [key |-> k_secret, attr |-> "core_v1_api", type |-> "secret"],
       [key |-> k_namespace, attr |-> "core_v1_api", type |-> "namespace"],
       [key |-> k_persistentvolumeclaim, attr |-> "core_v1_api", type |-> "persistent_volume_claim"],
       [key |-> k_persistentvolume, attr |-> "core_v1_api", type |-> "persistent_volume"],
       [key |-> k_serviceaccount, attr |-> "core_v1_api", type |-> "service_account"],
       [key |-> k_node, attr |-> "core_v1_api", type |-> "node"],
       [key |-> k_deployment, attr |-> "apps_v1_api", type |-> "deployment"],
       [key |-> k_replicaset, attr |-> "apps_v1_api", type |-> "replica_set"],
       [key |-> k_statefulset, attr |-> "apps_v1_api", type |-> "stateful_set"],
       [key |-> k_daemonset, attr |-> "apps_v1_api", type |-> "daemon_set"],
       [key |-> k_ingress, attr |-> "networking_v1_api", type |-> "ingress"],
       [key |-> k_ingressclass, attr |-> "networking_v1_api", type |-> "ingress_class"],
       [key |-> k_networkpolicy, attr |-> "networking_v1_api", type |-> "network_policy"],
       [key |-> k_event, attr |-> "events_1_api", type |-> "event"] >>

ResourceKeys == {ResourceRows[i].key : i \in DOMAIN ResourceRows}

---------------------------------------------------------------------------
(* The KubeClient object: its instance attributes *)

Unset == "unset"
AttrNames == {"api_client", "core_v1_api", "apps_v1_api", "ingress_v1_api",
              "networking_v1_api", "events_1_api"}

\* the assignments of the try body of __init__, after config.load_kube_config()
InitAssignments ==
    << <<"api_client", "ApiClient">>, <<"core_v1_api", "CoreV1Api">>,
       <<"apps_v1_api", "AppsV1Api">>, <<"ingress_v1_api", "NetworkingV1Api">>,
       <<"events_1_api", "EventsV1Api">> >>
\* the assignments of the try body of aconnect, after config.load_kube_config()
AConnectAssignments ==
    << <<"api_client", "ApiClient">>, <<"core_v1_api", "CoreV1Api">>,
       <<"apps_v1_api", "AppsV1Api">>, <<"networking_v1_api", "NetworkingV1Api">>,
       <<"events_1_api", "EventsV1Api">> >>

\* the first n assignments of a try body have run when the exception, if any, is raised
Assigned(a, assignments, n) ==
    [x \in AttrNames |->
        IF \E i \in 1..n : assignments[i][1] = x
        THEN assignments[CHOOSE i \in 1..n : assignments[i][1] = x][2]
        ELSE a[x]]

\* self.<name>: AttributeError when the attribute was never assigned
AttributeErrorOf(owner, name) ==
    Exc("AttributeError", <<"'", owner, "' object has no attribute '">> \o name \o <<"'">>)

\* the dict literal reads self.<attr> row by row: the first unset one raises
mapping_of(a, rows) ==
    IF \E i \in DOMAIN rows : a[rows[i].attr] = Unset
    THEN Raise(AttributeErrorOf("KubeClient",
                 <<rows[CHOOSE i \in DOMAIN rows :
                          /\ a[rows[i].attr] = Unset
                          /\ \A j \in 1..(i - 1) : a[rows[j].attr] # Unset].attr>>),
               <<>>, <<>>)
    ELSE Return([k \in {rows[i].key : i \in DOMAIN rows} |->
                    <<a[rows[CHOOSE i \in DOMAIN rows : rows[i].key = k].attr],
                      rows[CHOOSE i \in DOMAIN rows : rows[i].key = k].type>>],
                <<>>, <<>>)

get_resource_mapping(a) == mapping_of(a, ResourceRows)

\* the plural rule of _normalize_resource_kind, on the lowercased kind
StripPluralUnchecked(resource_kind, resources) ==
    IF endswith_s(resource_kind) THEN drop_last(resource_kind) ELSE resource_kind
StripPlural(resource_kind, resources) ==
    IF endswith_s(resource_kind) /\ resource_kind \notin DOMAIN resources
    THEN drop_last(resource_kind)
    ELSE resource_kind

\* _normalize_resource_kind once resource_kind.lower() and the table are there
normalize_with(resource_kind, resources) ==
    IF resources.raised THEN resources
    ELSE Return(StripPlural(resource_kind, resources.val), <<>>, <<>>)

normalize_resource_kind(a, resource_kind) ==
    normalize_with(lower(resource_kind), get_resource_mapping(a))

\* (None, None) for a kind that is no key, the table's entry otherwise
lookup_entry(n, resources) ==
    IF n.raised THEN n
    ELSE IF resources.raised THEN resources
    ELSE IF n.val \notin DOMAIN resources.val THEN Return(<<None, None>>, <<>>, <<>>)
    ELSE Return(resources.val[n.val], <<>>, <<>>)

get_api_client_and_resource_type(a, resource_kind) ==
    lookup_entry(normalize_resource_kind(a, resource_kind), get_resource_mapping(a))

---------------------------------------------------------------------------
(* The kubernetes client library: which methods each API class has *)

NamespacedTypes ==
    [CoreV1Api |-> {"pod", "service", "config_map", "secret",
                    "persistent_volume_claim", "service_account"},
     AppsV1Api |-> {"deployment", "replica_set", "stateful_set", "daemon_set"},
     NetworkingV1Api |-> {"ingress", "network_policy"},
     EventsV1Api |-> {"event"}]
ClusterTypes ==
    [CoreV1Api |-> {"namespace", "persistent_volume", "node"},
     AppsV1Api |-> {},
     NetworkingV1Api |-> {"ingress_class"},
     EventsV1Api |-> {}]

\* the method names the code formats
list_namespaced(resource_type) == <<"list_namespaced_", resource_type>>
list_for_all_namespaces(resource_type) == <<"list_", resource_type, "_for_all_namespaces">>
list_unscoped(resource_type) == <<"list_", resource_type>>
read_namespaced(resource_type) == <<"read_namespaced_", resource_type>>
read_unscoped(resource_type) == <<"read_", resource_type>>

hasattr(api, method_name) ==
    \/ \E ty \in NamespacedTypes[api] :
          method_name \in {list_namespaced(ty), list_for_all_namespaces(ty), read_namespaced(ty)}
    \/ \E ty \in ClusterTypes[api] :
          method_name \in {list_unscoped(ty), read_unscoped(ty)}
    \/ api = "CoreV1Api" /\ method_name = <<"read_namespaced_pod_log">>

---------------------------------------------------------------------------
(* The backend: what one invoked call does *)

BackendObjects ==
    { [cls |-> "V1Object", metadata |-> [cls |-> "V1ObjectMeta", name |-> "a", namespace |-> "team-a"]],
      [cls |-> "V1Object", metadata |-> [cls |-> "V1ObjectMeta", name |-> "b", namespace |-> "team-b"]] }

\* a list answer holds each object at most once
ItemLists ==
    { items \in UNION { [1..n -> BackendObjects] : n \in 0..MaxItems } :
        \A i, j \in DOMAIN items : items[i] = items[j] => i = j }

BackendExceptions ==
    { Exc("ApiException", <<"(404) Reason: Not Found">>),
      Exc("MaxRetryError", <<"Max retries exceeded: Connection refused">>),
      Exc("AttributeError", <<"'NoneType' object has no attribute 'get'">>) }

Failures == { [ok |-> FALSE, result |-> None, exc |-> e] : e \in BackendExceptions }
ListOutcomes ==
    { [ok |-> TRUE, result |-> [cls |-> "V1List", items |-> items], exc |-> NoExc] :
        items \in ItemLists }
ReadOutcomes == { [ok |-> TRUE, result |-> obj, exc |-> NoExc] : obj \in BackendObjects }
LogOutcomes ==
    { [ok |-> TRUE, result |-> text, exc |-> NoExc] : text \in {<<>>, <<"line 1\n">>} }

\* api_client.sanitize_for_serialization: the model object as plain dicts
sanitize_for_serialization(obj) ==
    [metadata |-> [name |-> obj.metadata.name, namespace |-> obj.metadata.namespace]]

\* getattr(api_client, method_name)(**kwargs): the lookup, then the call
getattr_call(api, method_name, kwargs, out) ==
    IF ~hasattr(api, method_name)
    THEN Raise(AttributeErrorOf(api, method_name), <<method_name>>, <<>>)
    ELSE IF out.ok
    THEN Return(out.result, <<method_name>>,
                <<[api |-> api, method |-> method_name, kwargs |-> kwargs]>>)
    ELSE Raise(out.exc, <<method_name>>,
               <<[api |-> api, method |-> method_name, kwargs |-> kwargs]>>)

---------------------------------------------------------------------------
(* KubeClient.get_resources *)

\* a gateway result with the handler's locals: the normalized kind and the
\* (api_client, resource_type) pair
Locals(r, resource_kind, entry) ==
    [raised |-> r.raised, val |-> r.val, exc |-> r.exc, lookups |-> r.lookups,
     calls |-> r.calls, resource_kind |-> resource_kind, entry |-> entry]

NoKwargs == [k \in {} |-> k]

\* what a second attempt adds to the first one's backend traffic
after(first, second) ==
    [second EXCEPT !.lookups = first.lookups \o @, !.calls = first.calls \o @]

\* a retry of the all-namespaces call after any failure
retry_on_any_error(api, resource_type, first, outs) ==
    IF first.raised
    THEN after(first, getattr_call(api, list_for_all_namespaces(resource_type), NoKwargs,
                                   outs[Len(first.calls) + 1]))
    ELSE first

\* except AttributeError: the plain list method
unscoped_on_attribute_error(api, resource_type, first, outs) ==
    IF first.raised /\ first.exc.type = "AttributeError"
    THEN after(first, getattr_call(api, list_unscoped(resource_type), NoKwargs,
                                   outs[Len(first.calls) + 1]))
    ELSE first

\* the inner try: the all-namespaces method first
list_all_or_unscoped(api, resource_type, outs) ==
    unscoped_on_attribute_error(api, resource_type,
        getattr_call(api, list_for_all_namespaces(resource_type), NoKwargs, outs[1]), outs)

\* the choice of the list method
list_dispatch(api, resource_kind, resource_type, namespace, outs) ==
    IF namespace # "" /\ resource_kind # k_namespace
    THEN getattr_call(api, list_namespaced(resource_type), [namespace |-> namespace], outs[1])
    ELSE list_all_or_unscoped(api, resource_type, outs)

\* the loop over result.items
serialize_items(a, items) ==
    IF Len(items) > 0 /\ a["api_client"] = Unset
    THEN Raise(AttributeErrorOf("KubeClient", <<"api_client">>), <<>>, <<>>)
    ELSE Return([i \in 1..Len(items) |-> sanitize_for_serialization(items[i])], <<>>, <<>>)

\* return serializable_items, or [] from the except clause
get_resources_serialized(resource_kind, entry, listed, ser) ==
    IF ser.raised
    THEN Locals(Return(PyList(<<>>), listed.lookups, listed.calls), resource_kind, entry)
    ELSE Locals(Return(PyList(ser.val), listed.lookups, listed.calls), resource_kind, entry)

\* after the list call: [] from the except clause, or the loop
get_resources_listed(a, resource_kind, entry, listed) ==
    IF listed.raised
    THEN Locals(Return(PyList(<<>>), listed.lookups, listed.calls), resource_kind, entry)
    ELSE get_resources_serialized(resource_kind, entry, listed,
                                  serialize_items(a, listed.val.items))

\* after the lookup: [] for an unsupported kind, or the try block
get_resources_resolved(a, resource_kind, entry, namespace, outs) ==
    IF entry.raised THEN Locals(entry, resource_kind, <<None, None>>)
    ELSE IF entry.val[1] = None \/ entry.val[2] = None
    THEN Locals(Return(PyList(<<>>), <<>>, <<>>), resource_kind, entry.val)
    ELSE get_resources_listed(a, resource_kind, entry.val,
             list_dispatch(entry.val[1], resource_kind, entry.val[2], namespace, outs))

\* after resource_kind = self._normalize_resource_kind(resource_kind)
get_resources_normalized(a, n, namespace, outs) ==
    IF n.raised THEN Locals(n, None, <<None, None>>)
    ELSE get_resources_resolved(a, n.val, get_api_client_and_resource_type(a, n.val),
                                namespace, outs)

get_resources(a, resource_kind, namespace, outs) ==
    get_resources_normalized(a, normalize_resource_kind(a, resource_kind), namespace, outs)

---------------------------------------------------------------------------
(* KubeClient.describe_resource *)

UnsupportedPrefix == <<"U", "n", "s", "u", "p", "p", "o", "r", "t", "e", "d", " ", "r", "e", "s", "o", "u", "r", "c", "e", " ", "k", "i", "n", "d", ":", " ">>

\* the error document without the kind
unsupported_document_bare(resource_kind) ==
    PyDict([error |-> UnsupportedPrefix])

\* {"error": f"Unsupported resource kind: {resource_kind}"}
unsupported_document(resource_kind) ==
    PyDict([error |-> UnsupportedPrefix \o resource_kind])

\* {"error": f"Failed to describe {resource_kind} {resource_name}: {str(e)}"}
failed_document(resource_kind, resource_name, e) ==
    PyDict([error |-> <<"Failed to describe ">> \o resource_kind \o <<" ", resource_name, ": ">>
                        \o e.msg])

\* the choice of the read method
read_dispatch(api, resource_kind, resource_type, resource_name, namespace, outs) ==
    IF resource_kind # k_namespace
    THEN getattr_call(api, read_namespaced(resource_type),
                      [name |-> resource_name, namespace |-> namespace], outs[1])
    ELSE getattr_call(api, read_unscoped(resource_type), [name |-> resource_name], outs[1])

serialize_object(a, obj) ==
    IF a["api_client"] = Unset
    THEN Raise(AttributeErrorOf("KubeClient", <<"api_client">>), <<>>, <<>>)
    ELSE Return(sanitize_for_serialization(obj), <<>>, <<>>)

\* return resource_dict, or the error document of the except clause
describe_resource_serialized(resource_kind, resource_name, entry, read, ser) ==
    IF ser.raised
    THEN Locals(Return(failed_document(resource_kind, resource_name, ser.exc),
                       read.lookups, read.calls), resource_kind, entry)
    ELSE Locals(Return(PyDict(ser.val), read.lookups, read.calls), resource_kind, entry)

\* a read whose failure is not caught
describe_resource_read_uncaught(a, resource_kind, resource_name, entry, read) ==
    IF read.raised
    THEN Locals(Raise(read.exc, read.lookups, read.calls), resource_kind, entry)
    ELSE describe_resource_serialized(resource_kind, resource_name, entry, read,
                                      serialize_object(a, read.val))

\* after the read call
describe_resource_read(a, resource_kind, resource_name, entry, read) ==
    IF read.raised
    THEN Locals(Return(failed_document(resource_kind, resource_name, read.exc),
                       read.lookups, read.calls), resource_kind, entry)
    ELSE describe_resource_serialized(resource_kind, resource_name, entry, read,
                                      serialize_object(a, read.val))

\* after the lookup
describe_resource_resolved(a, resource_kind, entry, resource_name, namespace, outs) ==
    IF entry.raised THEN Locals(entry, resource_kind, <<None, None>>)
    ELSE IF entry.val[1] = None \/ entry.val[2] = None
    THEN Locals(Return(unsupported_document(resource_kind), <<>>, <<>>),
                resource_kind, entry.val)
    ELSE describe_resource_read(a, resource_kind, resource_name, entry.val,
             read_dispatch(entry.val[1], resource_kind, entry.val[2], resource_name,
                           namespace, outs))

\* after resource_kind = self._normalize_resource_kind(resource_kind)
describe_resource_normalized(a, n, resource_name, namespace, outs) ==
    IF n.raised THEN Locals(n, None, <<None, None>>)
    ELSE describe_resource_resolved(a, n.val, get_api_client_and_resource_type(a, n.val),
                                    resource_name, namespace, outs)

describe_resource(a, resource_kind, resource_name, namespace, outs) ==
    describe_resource_normalized(a, normalize_resource_kind(a, resource_kind),
                                 resource_name, namespace, outs)

---------------------------------------------------------------------------
(* KubeClient.get_pod_logs: the class body defines it twice, the second wins *)

\* self.core_v1_api.read_namespaced_pod_log(**kwargs), inside the try
read_pod_log(a, kwargs, outs) ==
    IF a["core_v1_api"] = Unset
    THEN Raise(AttributeErrorOf("KubeClient", <<"core_v1_api">>), <<>>, <<>>)
    ELSE getattr_call(a["core_v1_api"], <<"read_namespaced_pod_log">>, kwargs, outs[1])

\* return logs, or f"Failed to get logs: {str(e)}" from the except clause
logs_or_failure(logs) ==
    IF logs.raised
    THEN Return(PyStr(<<"Failed to get logs: ">> \o logs.exc.msg), logs.lookups, logs.calls)
    ELSE Return(PyStr(logs.val), logs.lookups, logs.calls)

\* the first definition, which the second one replaces
get_pod_logs_shadowed(a, pod_name, container, namespace, tail_lines, outs) ==
    logs_or_failure(read_pod_log(a, [name |-> pod_name, namespace |-> namespace,
                                     container |-> container], outs))

get_pod_logs(a, pod_name, container, namespace, tail_lines, outs) ==
    logs_or_failure(read_pod_log(a, [name |-> pod_name, namespace |-> namespace,
                                     container |-> container, pretty |-> TRUE,
                                     tail_lines |-> tail_lines], outs))

---------------------------------------------------------------------------
(* The tools of main.py *)

DefaultTailLines == 100

\* what a tool hands back to the server: its value or the exception it let through
Response(tool, r, gateway) ==
    [tool |-> tool, raised |-> r.raised, val |-> r.val, exc |-> r.exc, gateway |-> gateway]

\* f"No {resource_kind} resources found" + (f" in namespace {namespace}" if namespace else "")
no_resources_text(resource_kind, namespace) ==
    <<"No ">> \o resource_kind \o <<" resources found">>
        \o (IF namespace # "" THEN <<" in namespace ", namespace>> ELSE <<>>)

\* the tool without its emptiness test
resources_unchecked(resource_kind, namespace, resources) ==
    Response("get_resources", resources, resources)

\* if not resources: the "No ... found" text; the list otherwise
resources_or_text(resource_kind, namespace, resources) ==
    IF resources.raised THEN Response("get_resources", resources, resources)
    ELSE IF resources.val.v = <<>>
    THEN Response("get_resources",
                  Return(PyStr(no_resources_text(resource_kind, namespace)), <<>>, <<>>),
                  resources)
    ELSE Response("get_resources", resources, resources)

tool_get_resources(a, resource_kind, namespace, outs) ==
    resources_or_text(resource_kind, namespace,
                      get_resources(a, resource_kind, namespace, outs))

tool_describe_resource(a, resource_kind, resource_name, namespace, outs) ==
    Response("describe_resource",
             describe_resource(a, resource_kind, resource_name, namespace, outs),
             describe_resource(a, resource_kind, resource_name, namespace, outs))

tool_get_pod_logs(a, pod_name, namespace, tail_lines, outs) ==
    Response("get_pod_logs",
             get_pod_logs(a, pod_name, None, namespace, tail_lines, outs),
             get_pod_logs(a, pod_name, None, namespace, tail_lines, outs))

---------------------------------------------------------------------------
(* What callers send *)

k_frobnicator == <<"f", "r", "o", "b", "n", "i", "c", "a", "t", "o", "r">>

plural(n) == [i \in 1..n |-> "s"]
KindBases == ResourceKeys \cup {k_frobnicator}
KindInputs ==
    UNION { {k \o plural(n), capitalize(k \o plural(n))} : k \in KindBases, n \in 0..MaxPlural }

NamespaceArgs == {<<>>, <<"">>, <<"team-a">>}
ResourceNames == {"web"}
PodNames == {"p1"}
TailLinesArgs == {<<>>, <<10>>}

NoRequest == [tool |-> "none"]
NoResponse == [tool |-> "none"]

---------------------------------------------------------------------------
(* The state machine *)

Init ==
    /\ phase = "new"
    /\ attrs = [x \in AttrNames |-> Unset]
    /\ request = NoRequest
    /\ response = NoResponse

\* KubeClient(): the try body stops at the statement that raises, if one does
Construct ==
    /\ phase = "new"
    /\ \E n \in 0..Len(InitAssignments) :
          attrs' = Assigned(attrs, InitAssignments, n)
    /\ phase' = "constructed"
    /\ UNCHANGED <<request, response>>

\* await KubeClient().aconnect() in app_lifespan; the server then serves
AConnect ==
    /\ phase = "constructed"
    /\ \E n \in 0..Len(AConnectAssignments) :
          attrs' = Assigned(attrs, AConnectAssignments, n)
    /\ phase' = "serving"
    /\ UNCHANGED <<request, response>>

GetResources ==
    /\ phase = "serving"
    /\ response.tool = "none"
    /\ \E resource_kind \in KindInputs, namespace \in NamespaceArgs,
          outs \in [1..2 -> ListOutcomes \cup Failures] :
          /\ request' = [tool |-> "get_resources", resource_kind |-> resource_kind,
                         namespace |-> namespace, outs |-> outs]
          /\ response' = tool_get_resources(attrs, resource_kind, WithDefault(namespace, ""), outs)
    /\ UNCHANGED <<phase, attrs>>

DescribeResource ==
    /\ phase = "serving"
    /\ response.tool = "none"
    /\ \E resource_kind \in KindInputs, resource_name \in ResourceNames,
          namespace \in NamespaceArgs, outs \in [1..2 -> ReadOutcomes \cup Failures] :
          /\ request' = [tool |-> "describe_resource", resource_kind |-> resource_kind,
                         resource_name |-> resource_name, namespace |-> namespace,
                         outs |-> outs]
          /\ response' = tool_describe_resource(attrs, resource_kind, resource_name,
                                                WithDefault(namespace, "default"), outs)
    /\ UNCHANGED <<phase, attrs>>

GetPodLogs ==
    /\ phase = "serving"
    /\ response.tool = "none"
    /\ \E pod_name \in PodNames, namespace \in NamespaceArgs, tail_lines \in TailLinesArgs,
          outs \in [1..2 -> LogOutcomes \cup Failures] :
          /\ request' = [tool |-> "get_pod_logs", pod_name |-> pod_name,
                         namespace |-> namespace, tail_lines |-> tail_lines, outs |-> outs]
          /\ response' = tool_get_pod_logs(attrs, pod_name, WithDefault(namespace, "default"),
                                           WithDefault(tail_lines, DefaultTailLines), outs)
    /\ UNCHANGED <<phase, attrs>>

\* the server sends the tool's answer; the next call may come
Reply ==
    /\ response.tool # "none"
    /\ request' = NoRequest
    /\ response' = NoResponse
    /\ UNCHANGED <<phase, attrs>>

Next == Construct \/ AConnect \/ GetResources \/ DescribeResource \/ GetPodLogs \/ Reply

Spec == Init /\ [][Next]_vars

---------------------------------------------------------------------------
(* Vocabulary of the properties *)

gateway == response.gateway
Listed == response.tool = "get_resources"
Described == response.tool = "describe_resource"
Logged == response.tool = "get_pod_logs"

\* startup failed in __init__ and in aconnect before any handle was assigned
Outage == phase = "serving" /\ \A x \in AttrNames : attrs[x] = Unset

\* the handler got past normalization and lookup without an exception
Looked == (Listed \/ Described) /\ ~gateway.raised
\* the handler found a table entry, or did not
Resolved == Looked /\ gateway.entry[1] # None
Unresolved == Looked /\ gateway.entry[1] = None

\* the kind as sent, the namespace the handler works with
SentKind == request.resource_kind
ListNamespace == WithDefault(request.namespace, "")
ReadNamespace == WithDefault(request.namespace, "default")

\* the backend methods of the resolved resource type
NamespacedMethods ==
    {list_namespaced(gateway.entry[2]), read_namespaced(gateway.entry[2])}
UnscopedMethods == {list_unscoped(gateway.entry[2]), read_unscoped(gateway.entry[2])}
Methods(seq) == {seq[i] : i \in DOMAIN seq}
Invoked == {gateway.calls[i].method : i \in DOMAIN gateway.calls}

\* the spec's resolution rule: the lowercased kind is a key, or ends in "s" and
\* is a key once exactly one "s" is taken off
OneStripResolves(kind) ==
    \/ lower(kind) \in ResourceKeys
    \/ endswith_s(lower(kind)) /\ drop_last(lower(kind)) \in ResourceKeys

\* sub occurs in text, letter case aside
Mentions(text, sub) ==
    \E i \in 0..(Len(text) - Len(sub)) :
        \A j \in 1..Len(sub) : lower_char(text[i + j]) = lower_char(sub[j])

---------------------------------------------------------------------------
(* C1 *)

\* C1: after a startup in which no API handle was set, every get_resources call
\* returns an empty list and lets no exception through.
C1_OutageListsEmpty ==
    (Outage /\ Listed) => (~gateway.raised /\ gateway.val = PyList(<<>>))

(* C2 *)

\* C2: for the kinds node, namespace and persistentvolume, whatever the namespace,
\* get_resources and describe_resource invoke the unscoped backend method and
\* never attempt a namespaced one.
C2_ClusterScopedUnscoped ==
    (Resolved /\ gateway.entry[2] \in {"node", "namespace", "persistent_volume"})
        => /\ Methods(gateway.lookups) \cap NamespacedMethods = {}
           /\ Len(gateway.calls) = 1
           /\ Invoked \subseteq UnscopedMethods

(* C3 *)

\* C3: a kind resolves to a table entry exactly when its lowercased form is a key,
\* or ends in "s" and is a key with exactly one trailing "s" removed.
C3_ExactlyOneStrip ==
    Looked => (Resolved <=> OneStripResolves(SentKind))

(* C4 *)

\* C4: normalization is idempotent on known kinds (a key, or a key plus one "s",
\* in any letter case), and leaves every canonical key unchanged.
C4_NormalizeIdempotent ==
    (Looked /\ OneStripResolves(SentKind))
        => /\ ~normalize_resource_kind(attrs, gateway.resource_kind).raised
           /\ normalize_resource_kind(attrs, gateway.resource_kind).val = gateway.resource_kind
           /\ SentKind \in ResourceKeys => gateway.resource_kind = SentKind

C4_Witness ==
    /\ Looked
    /\ SentKind \in {k_ingress, capitalize(k_ingressclass \o <<"s">>)}
    /\ gateway.resource_kind \in {k_ingress, k_ingressclass}

(* C5 *)

\* C5: with a non-empty namespace and a resolved kind other than namespace,
\* get_resources invokes the namespaced list method with that namespace and no
\* other; otherwise it tries the all-namespaces method first and invokes the
\* unscoped one only when the all-namespaces method does not exist.
C5_ListDispatch ==
    (Listed /\ Resolved)
        => IF ListNamespace # "" /\ gateway.entry[2] # "namespace"
           THEN /\ Len(gateway.calls) = 1
                /\ gateway.calls[1].method = list_namespaced(gateway.entry[2])
                /\ gateway.calls[1].kwargs = [namespace |-> ListNamespace]
           ELSE /\ gateway.lookups[1] = list_for_all_namespaces(gateway.entry[2])
                /\ list_unscoped(gateway.entry[2]) \in Invoked
                     => ~hasattr(gateway.entry[1], list_for_all_namespaces(gateway.entry[2]))
                /\ list_namespaced(gateway.entry[2]) \notin Methods(gateway.lookups)

(* C6 *)

\* C6, as claimed: for a kind that does not resolve, on a connected client,
\* get_resources returns an empty list, describe_resource returns an error
\* document whose message mentions the requested kind, and no backend method is
\* looked up or invoked.
C6_UnknownMentionsRequested ==
    Unresolved
        => /\ gateway.calls = <<>> /\ gateway.lookups = <<>>
           /\ Listed => gateway.val = PyList(<<>>)
           /\ Described => /\ response.val.t = "dict"
                           /\ DOMAIN response.val.v = {"error"}
                           /\ Mentions(response.val.v.error, SentKind)

\* C6, amended: the message is "Unsupported resource kind: " followed by the
\* kind as normalized once (lowercased, one trailing "s" taken off), not by the
\* kind as requested; the rest as claimed.
C6_UnknownNamesNormalized ==
    Unresolved
        => /\ gateway.calls = <<>> /\ gateway.lookups = <<>>
           /\ ~response.raised
           /\ Listed => gateway.val = PyList(<<>>)
           /\ Described =>
                response.val = PyDict([error |-> UnsupportedPrefix \o
                    (IF endswith_s(lower(SentKind)) THEN drop_last(lower(SentKind))
                     ELSE lower(SentKind))])

C6_Witness ==
    /\ Unresolved /\ Described
    /\ SentKind = capitalize(k_frobnicator \o <<"s">>)
    /\ response.val.v.error = UnsupportedPrefix \o k_frobnicator

(* C7 *)

\* the text before the cause in the error document of a failed describe
FailedPrefix ==
    <<"Failed to describe ">> \o normalize_resource_kind(attrs, SentKind).val
        \o <<" ", request.resource_name, ": ">>

\* C7: for a resolvable kind describe_resource lets no backend failure through:
\* when the read fails, the method not existing included, it returns the error
\* document "Failed to describe <normalized kind> <name>: <cause>", and the
\* serialized object otherwise.
C7_DescribeNeverRaises ==
    (Described /\ ~get_resource_mapping(attrs).raised /\ gateway.entry[1] # None)
        => /\ ~response.raised
           /\ response.val.t = "dict"
           /\ IF gateway.calls = <<>>
              THEN /\ DOMAIN response.val.v = {"error"}
                   /\ Len(response.val.v.error) > Len(FailedPrefix)
                   /\ SubSeq(response.val.v.error, 1, Len(FailedPrefix)) = FailedPrefix
              ELSE IF ~request.outs[1].ok
              THEN response.val.v = [error |-> FailedPrefix \o request.outs[1].exc.msg]
              ELSE response.val.v = sanitize_for_serialization(request.outs[1].result)

C7_Witness ==
    /\ Described /\ Resolved
    /\ SentKind = capitalize(k_deployment)
    /\ ReadNamespace = "team-a"
    /\ Len(gateway.calls) = 1
    /\ ~request.outs[1].ok
    /\ response.val.v.error = <<"Failed to describe ">> \o k_deployment
                                \o <<" ", "web", ": ">> \o request.outs[1].exc.msg

(* C8 *)

\* C8: get_pod_logs makes the one log call with the pod name, the namespace
\* (default "default"), no container, tail_lines (default 100) and pretty output
\* and returns its text; on any failure, a client without handles included, it
\* returns a text that starts with "Failed to get logs: " and raises nothing.
C8_PodLogs ==
    Logged
        => /\ ~response.raised
           /\ response.val.t = "str"
           /\ IF attrs["core_v1_api"] = Unset
              THEN /\ gateway.calls = <<>>
                   /\ Len(response.val.v) > 1
                   /\ Head(response.val.v) = "Failed to get logs: "
              ELSE /\ gateway.calls =
                        << [api |-> "CoreV1Api", method |-> <<"read_namespaced_pod_log">>,
                            kwargs |-> [name |-> request.pod_name,
                                        namespace |-> ReadNamespace,
                                        container |-> None,
                                        pretty |-> TRUE,
                                        tail_lines |-> WithDefault(request.tail_lines, 100)]] >>
                   /\ IF request.outs[1].ok
                      THEN response.val.v = request.outs[1].result
                      ELSE response.val.v =
                              <<"Failed to get logs: ">> \o request.outs[1].exc.msg

C8_Witness ==
    /\ Outage /\ Logged
    /\ request.namespace = <<>> /\ request.tail_lines = <<>>
    /\ Head(response.val.v) = "Failed to get logs: "

(* C9 *)

\* C9: the get_resources tool returns the gateway's list when it is not empty,
\* one document per backend item in the backend's order, and the text
\* "No <kind> resources found", with " in namespace <ns>" when a namespace was
\* given, whenever the gateway's list is empty.
C9_ToolListOrText ==
    (Listed /\ ~gateway.raised)
        => /\ ~response.raised
           /\ IF gateway.val.v # <<>>
              THEN /\ response.val = gateway.val
                   /\ Len(gateway.calls) >= 1
                   /\ request.outs[Len(gateway.calls)].ok
                   /\ LET items == request.outs[Len(gateway.calls)].result.items IN
                      response.val.v =
                          [i \in 1..Len(items) |->
                              [metadata |-> [name |-> items[i].metadata.name,
                                             namespace |-> items[i].metadata.namespace]]]
              ELSE response.val =
                      PyStr(<<"No ">> \o SentKind \o <<" resources found">>
                            \o (IF ListNamespace # ""
                                THEN <<" in namespace ", ListNamespace>> ELSE <<>>))

C9_Witness ==
    /\ Listed /\ Resolved
    /\ Len(response.val.v) = 2
    /\ response.val.t = "list"
    /\ response.val.v[1].metadata.name = "b"
    /\ response.val.v[2].metadata.name = "a"

(* C10 *)

====
